---------------------------- MODULE Spec2Model ----------------------------
(***************************************************************************)
(* A model of the ground-state solver of qarray: the backend dispatcher    *)
(* (qarray/classes/_helper_functions.py), the brute-force closed solver    *)
(* (qarray/jax_brute_force_core/closed.py), the closed configuration       *)
(* generator and the python core (src/core_python).                        *)
(*                                                                         *)
(* Numbers.  Occupations and voltages are reals in the program.  The model *)
(* keeps them as exact rationals with a fixed denominator: a dispatcher    *)
(* result component h stands for h / RDen, a voltage-induced charge and a  *)
(* continuous occupation c stand for c / Den.  Energies are kept scaled by *)
(* the square of the denominator, which does not change their order.       *)
(* Floating point values that are not numbers are the tagged values Inf    *)
(* and NaN below.                                                          *)
(***************************************************************************)
EXTENDS Integers, Sequences, FiniteSets, TLC

\* the dispatcher: one call of _ground_state_open or _ground_state_closed
VARIABLES pc, req, backend, result, events, ret, error
\* one application of a function of the python core to drawn arguments
VARIABLES call

dvars == <<pc, req, backend, result, events, ret, error>>
vars == <<pc, req, backend, result, events, ret, error, call>>

-----------------------------------------------------------------------------
(* Bounds of the model *)

\* n_charge ranges over 0..MaxCharge
MaxCharge == 2
\* the trailing axis of vg ranges over 1..MaxGate
MaxGate == 3
\* the number of dots of a drawn continuous occupation ranges over 1..MaxDot
MaxDot == 3
\* a total charge so large that the relative tolerance of np.isclose reaches
\* one whole charge
LargeCharge == 100000
\* the denominator of the rationals: a stored number x stands for x / Den
Den == 4

-----------------------------------------------------------------------------
(* Vectors and matrices: sequences, and sequences of rows *)

RECURSIVE SumSeq(_)
SumSeq(s) == IF s = <<>> THEN 0 ELSE Head(s) + SumSeq(Tail(s))

RECURSIVE ProdSeq(_)
ProdSeq(s) == IF s = <<>> THEN 1 ELSE Head(s) * ProdSeq(Tail(s))

Abs(x) == IF x < 0 THEN -x ELSE x

Dot(a, b) == SumSeq([i \in DOMAIN a |-> a[i] * b[i]])

MatVec(M, x) == [i \in DOMAIN M |-> Dot(M[i], x)]

\* d^T M d, the einsum '...i, ij, ...j' of one row d
Quad(d, M) == Dot(d, MatVec(M, d))

RECURSIVE Pow(_, _)
Pow(b, e) == IF e = 0 THEN 1 ELSE b * Pow(b, e - 1)

None == "None"
\* an absent integer argument (None), and a present one
NoInt == <<>>
Some(x) == <<x>>
\* no array yet
NoArray == <<>>
NoRet == [shape |-> <<>>, rows |-> <<>>]

-----------------------------------------------------------------------------
(* IEEE values: a finite number, +inf or NaN *)

Fin(x) == <<"fin", x>>
Inf == <<"inf", 0>>
NaN == <<"nan", 0>>

IsNaN(a) == a[1] = "nan"

\* a + b of two floats, none of them -inf
FAdd(a, b) ==
    IF IsNaN(a) \/ IsNaN(b) THEN NaN
    ELSE IF a[1] = "inf" \/ b[1] = "inf" THEN Inf
    ELSE Fin(a[2] + b[2])

\* a < b of two floats; every comparison with NaN is false
FLess(a, b) ==
    /\ ~IsNaN(a)
    /\ ~IsNaN(b)
    /\ a[1] = "fin"
    /\ (b[1] = "inf" \/ a[2] < b[2])

-----------------------------------------------------------------------------
(* Backend identifiers.  A Python string is modelled as the sequence of   *)
(* its characters, so that its case can be changed letter by letter.       *)

Letters == <<"a","b","c","d","e","f","g","h","i","j","k","l","m",
             "n","o","p","q","r","s","t","u","v","w","x","y","z">>
Capitals == <<"A","B","C","D","E","F","G","H","I","J","K","L","M",
              "N","O","P","Q","R","S","T","U","V","W","X","Y","Z">>

\* str.upper and str.lower of one character
UpperChar(c) ==
    IF \E i \in DOMAIN Letters : Letters[i] = c
    THEN Capitals[CHOOSE i \in DOMAIN Letters : Letters[i] = c]
    ELSE c
LowerChar(c) ==
    IF \E i \in DOMAIN Capitals : Capitals[i] = c
    THEN Letters[CHOOSE i \in DOMAIN Capitals : Capitals[i] = c]
    ELSE c
Lower(s) == [i \in DOMAIN s |-> LowerChar(s[i])]

\* s with its first k characters in upper case
UpperPrefix(s, k) == [i \in DOMAIN s |-> IF i <= k THEN UpperChar(s[i]) ELSE s[i]]

s_rust == <<"r","u","s","t">>
s_r == <<"r">>
s_jax == <<"j","a","x">>
s_j == <<"j">>
s_brute_force == <<"b","r","u","t","e","_","f","o","r","c","e">>
s_jax_brute_force == <<"j","a","x","_","b","r","u","t","e","_","f","o","r","c","e">>
s_b == <<"b">>
s_python == <<"p","y","t","h","o","n">>
s_p == <<"p">>
s_matlab == <<"m","a","t","l","a","b">>

\* the literals of the case clauses of the two match statements
case_rust == {s_rust, UpperPrefix(s_rust, 1), UpperPrefix(s_rust, 4), s_r}
case_jax == {s_jax, UpperPrefix(s_jax, 1), UpperPrefix(s_jax, 3), s_j}
case_brute_force ==
    {s_brute_force, s_jax_brute_force, UpperPrefix(s_jax_brute_force, 1),
     UpperPrefix(s_jax_brute_force, 15), s_b}
case_python == {s_python, UpperPrefix(s_python, 1), UpperPrefix(s_python, 6), s_p}

\* the backend the match statement selects for model.core; None is "case _"
match_core(core) ==
    IF core \in case_rust THEN "rust"
    ELSE IF core \in case_jax THEN "jax"
    ELSE IF core \in case_brute_force THEN "brute_force"
    ELSE IF core \in case_python THEN "python"
    ELSE None

\* the identifiers section 6 of the specification recognizes, in lower case
Recognized ==
    {s_rust, s_r, s_jax, s_j, s_brute_force, s_jax_brute_force, s_b, s_python, s_p}

\* the values of model.core the model draws: every recognized identifier
\* with any prefix of it in upper case (lower case, Capitalized and UPPER
\* among them), and an identifier that is not recognized
CoreInputs ==
    {UpperPrefix(s, k) : s \in Recognized, k \in 0..15} \cup {s_matlab}

-----------------------------------------------------------------------------
(* The dot arrays the model draws: Cdd_inv and Cgd as integer matrices    *)
(* (a common positive factor of Cdd_inv changes no argmin).               *)

SysA == [cdd_inv |-> <<<<2, 1>>, <<1, 2>>>>, cgd |-> <<<<2, 0>>, <<0, 2>>>>]
SysB == [cdd_inv |-> <<<<1>>>>, cgd |-> <<<<1>>>>]
Systems == {SysA, SysB}

n_dot_of(sys) == Len(sys.cdd_inv)
n_gate_of(sys) == Len(sys.cgd[1])

-----------------------------------------------------------------------------
(* numpy helpers *)

\* the least index of a non-empty set of indices
FirstIdx(S) == CHOOSE i \in S : \A j \in S : i <= j

\* a slip: the last occurrence of the minimum
argmin_last(F) ==
    LET nans == {i \in DOMAIN F : IsNaN(F[i])}
        mins == {i \in DOMAIN F : \A j \in DOMAIN F : ~FLess(F[j], F[i])}
    IN IF nans # {} THEN FirstIdx(nans)
       ELSE CHOOSE i \in mins : \A j \in mins : j <= i

\* np.argmin / jnp.argmin of a non-empty sequence of floats: the first NaN
\* if there is one, else the first occurrence of the minimum
argmin(F) ==
    LET nans == {i \in DOMAIN F : IsNaN(F[i])}
        mins == {i \in DOMAIN F : \A j \in DOMAIN F : ~FLess(F[j], F[i])}
    IN IF nans # {} THEN FirstIdx(nans) ELSE FirstIdx(mins)

\* (boolean) * jnp.inf : True is 1.0 and 1.0 * inf = inf, False is 0.0 and
\* 0.0 * inf = nan
BoolTimesInf(b) == IF b THEN Inf ELSE NaN

-----------------------------------------------------------------------------
(* The brute-force closed solver *)

\* the dot each axis of np.meshgrid(*args) (indexing 'xy') runs over after
\* the reshape, the slowest axis first
meshgrid_axes(n_dot) ==
    [a \in 1..n_dot |-> IF n_dot = 1 THEN 1 ELSE IF a = 1 THEN 2 ELSE IF a = 2 THEN 1 ELSE a]

\* all vectors of {0..n_max}^n_dot, in the order of the reshaped meshgrid
open_change_configurations_brute_force(n_dot, n_max) ==
    LET N == n_max + 1
        axes == meshgrid_axes(n_dot)
        digit(r, a) == (r \div Pow(N, n_dot - a)) % N
        row(r) == [d \in 1..n_dot |-> digit(r, CHOOSE a \in 1..n_dot : axes[a] = d)]
    IN [r \in 1..Pow(N, n_dot) |-> row(r - 1)]

\* F + mask of _ground_state_closed_0d; vg is in units of 1/Den and the
\* energies are scaled by Den^2
closed_0d_F(vg, cgd, cdd_inv, n_charge, n_list) ==
    LET mask == [i \in DOMAIN n_list |-> BoolTimesInf(SumSeq(n_list[i]) # n_charge)]
        v_dash == MatVec(cgd, vg)
        d(i) == [k \in DOMAIN v_dash |-> n_list[i][k] * Den - v_dash[k]]
        F == [i \in DOMAIN n_list |-> Fin(Quad(d(i), cdd_inv))]
    IN [i \in DOMAIN n_list |-> FAdd(F[i], mask[i])]

\* n_list[jnp.argmin(F)], as a row of floats in units of 1/Den
hardargmin(F, n_list) ==
    LET n == n_list[argmin(F)] IN [k \in DOMAIN n |-> Fin(n[k] * Den)]

\* (n_list * softmax(-F / T)[:, None]).sum(axis=0): a NaN in F makes every
\* weight NaN and so every component of the sum.  Without a NaN the weights
\* are exponentials, which the model does not compute.
softargmin(F, n_list) ==
    IF \E i \in DOMAIN F : IsNaN(F[i])
    THEN [k \in DOMAIN n_list[1] |-> NaN]
    ELSE <<"softmax">>

brute_ground_state_closed_0d(vg, cgd, cdd_inv, n_charge, n_list, T) ==
    LET F == closed_0d_F(vg, cgd, cdd_inv, n_charge, n_list)
    IN IF T > 0 THEN softargmin(F, n_list) ELSE hardargmin(F, n_list)

\* jax.vmap of the single-vector solve over the rows of vg
ground_state_closed_jax_brute_force(vg, cgd, cdd_inv, n_charge, T) ==
    LET n_list == open_change_configurations_brute_force(Len(cdd_inv), n_charge)
    IN [p \in DOMAIN vg |->
            brute_ground_state_closed_0d(vg[p], cgd, cdd_inv, n_charge, n_list, T)]

-----------------------------------------------------------------------------
(* The dispatcher: _ground_state_open and _ground_state_closed             *)

\* the shapes of vg: one vector, or a batch of two
Shapes == {<<k>> : k \in 1..MaxGate} \cup {<<2, k>> : k \in 1..MaxGate}

Last(s) == s[Len(s)]
\* the number of rows of vg.reshape(-1, n_gate)
n_points(shape) == ProdSeq(SubSeq(shape, 1, Len(shape) - 1))
\* nd_shape = (*vg_shape[:-1], model.n_dot)
nd_shape(shape, n_dot) == Append(SubSeq(shape, 1, Len(shape) - 1), n_dot)

\* the gate voltages of one vector, in units of 1/Den
VgVals == {0, 1, Den \div 2}

\* what a backend whose code is not modelled may return for one component,
\* in units of 1/Den: -1, -1/2, 0 and 1; with the large total charge n: 0, n
\* and n + 1
ResultVals(n_charge) ==
    IF n_charge = Some(LargeCharge)
    THEN {0, LargeCharge * Den, (LargeCharge + 1) * Den}
    ELSE {-Den, -(Den \div 2), 0, Den}

DotArrays ==
    [core : CoreInputs, sys : Systems, threshold : {Den \div 2, Den}, T : {0, 1},
     max_charge_carriers : {NoInt, Some(1)}]

\* The dispatcher hands vg to the backend without reading its values, so
\* the values are drawn only where the model computes the backend's result.
VgOf(model, mode, shape) ==
    IF match_core(model.core) = "brute_force" /\ mode = "closed"
          /\ Last(shape) = n_gate_of(model.sys)
    THEN [1..n_points(shape) -> [1..Last(shape) -> VgVals]]
    ELSE {[p \in 1..n_points(shape) |-> [k \in 1..Last(shape) |-> 0]]}

\* the total charges the model draws for a call: none in open mode, where
\* max_charge_carriers is read; in closed mode 0..MaxCharge, and the large
\* one unless the brute-force solver is selected, which would enumerate
\* (n_charge + 1)^n_dot vectors
ChargesOf(mode, m) ==
    IF mode = "open" THEN {NoInt}
    ELSE IF m.max_charge_carriers # NoInt THEN {}
    ELSE {Some(c) : c \in 0..MaxCharge}
         \cup (IF match_core(m.core) \in {"rust", "jax", "python"}
               THEN {Some(LargeCharge)} ELSE {})

\* a slip: the first axis of vg is compared with n_gate
first_axis_matches(vg_shape, n_gate) == vg_shape[1] = n_gate

\* the test of _validate_vg, negated: vg.shape[-1] == n_gate
trailing_axis_matches(vg_shape, n_gate) == Last(vg_shape) = n_gate

\* _validate_vg, the first statement of both functions
validate_vg ==
    /\ pc = "start"
    /\ events' = Append(events, "validate_vg")
    /\ IF ~trailing_axis_matches(req.vg_shape, n_gate_of(req.model.sys))
       THEN pc' = "raised" /\ error' = "ValueError: shape of vg"
       ELSE pc' = "validated" /\ error' = error
    /\ UNCHANGED <<req, backend, result, ret>>

\* the JAX cores print a warning for threshold < 1.0
warns(b, model) == b \in {"jax", "brute_force"} /\ model.threshold < Den

\* the match statement of _ground_state_open, up to the call of the backend
ground_state_open_match ==
    /\ pc = "validated"
    /\ req.mode = "open"
    /\ LET b == match_core(req.model.core) IN
       IF b = None
       THEN /\ pc' = "raised"
            /\ error' = "ValueError: incorrect core"
            /\ events' = Append(events, "match")
            /\ backend' = backend
       ELSE IF b = "brute_force" /\ req.model.max_charge_carriers = NoInt
       THEN /\ pc' = "raised"
            /\ error' = "ValueError: max_charge_carriers"
            /\ events' = events \o <<"match", "check max_charge_carriers">>
            /\ backend' = backend
       ELSE /\ pc' = "called"
            /\ error' = error
            /\ backend' = b
            /\ events' = events \o <<"match">>
                  \o (IF b = "brute_force" THEN <<"check max_charge_carriers">> ELSE <<>>)
                  \o (IF warns(b, req.model) THEN <<"print warning">> ELSE <<>>)
                  \o <<"call backend">>
    /\ UNCHANGED <<req, result, ret>>

\* the match statement of _ground_state_closed, up to the call of the backend
ground_state_closed_match ==
    /\ pc = "validated"
    /\ req.mode = "closed"
    /\ LET b == match_core(req.model.core) IN
       IF b = None
       THEN /\ pc' = "raised"
            /\ error' = "ValueError: incorrect core"
            /\ events' = Append(events, "match")
            /\ backend' = backend
       ELSE /\ pc' = "called"
            /\ error' = error
            /\ backend' = b
            /\ events' = events \o <<"match">>
                  \o (IF warns(b, req.model) THEN <<"print warning">> ELSE <<>>)
                  \o <<"call backend">>
    /\ UNCHANGED <<req, result, ret>>

\* the backend is the brute-force closed solver
is_brute_closed == req.mode = "closed" /\ backend = "brute_force"

\* a backend whose code is not part of the model returns some array of
\* shape (n_points, n_dot)
backend_returns ==
    /\ pc = "called"
    /\ ~is_brute_closed
    /\ result' \in [1..n_points(req.vg_shape) ->
                      [1..n_dot_of(req.model.sys) ->
                          {Fin(h) : h \in ResultVals(req.n_charge)}]]
    /\ pc' = "solved"
    /\ UNCHANGED <<req, backend, events, ret, error>>

brute_force_closed_returns ==
    /\ pc = "called"
    /\ is_brute_closed
    /\ result' = ground_state_closed_jax_brute_force(
                     req.vg, req.model.sys.cgd, req.model.sys.cdd_inv,
                     req.n_charge[1], req.model.T)
    /\ pc' = "solved"
    /\ UNCHANGED <<req, backend, events, ret, error>>

\* float.astype(int) of x / Den: truncation toward zero
astype_int(x) == IF x[2] >= 0 THEN x[2] \div Den ELSE -((-x[2]) \div Den)

\* a slip: the sum is truncated to an integer and compared for equality
isclose_truncated(a, b) ==
    /\ ~IsNaN(a)
    /\ (IF a[2] >= 0 THEN a[2] \div Den ELSE -((-a[2]) \div Den)) = b

\* np.isclose(a, b) with rtol = 1e-5 and atol = 1e-8, for a in units of
\* 1/Den and an integer b: |a/Den - b| <= 1e-8 + 1e-5 * |b|
isclose(a, b) ==
    /\ ~IsNaN(a)
    /\ Abs(a[2] - b * Den) <= (Den + 1000 * Den * Abs(b)) \div 100000000

RowSum(row) ==
    IF \E k \in DOMAIN row : IsNaN(row[k]) THEN NaN
    ELSE Fin(SumSeq([k \in DOMAIN row |-> row[k][2]]))

\* assert np.all(result.astype(int) >= 0); return result.reshape(nd_shape)
ground_state_open_check ==
    /\ pc = "solved"
    /\ req.mode = "open"
    /\ events' = Append(events, "assert")
    /\ IF \A p \in DOMAIN result : \A k \in DOMAIN result[p] : astype_int(result[p][k]) >= 0
       THEN /\ pc' = "returned"
            /\ ret' = [shape |-> nd_shape(req.vg_shape, n_dot_of(req.model.sys)),
                       rows |-> result]
            /\ error' = error
       ELSE /\ pc' = "raised"
            /\ error' = "AssertionError"
            /\ ret' = ret
    /\ UNCHANGED <<req, backend, result>>

\* assert np.all(np.isclose(result.sum(axis=-1), n_charge)); return the reshape
ground_state_closed_check ==
    /\ pc = "solved"
    /\ req.mode = "closed"
    /\ events' = Append(events, "assert")
    /\ IF \A p \in DOMAIN result : isclose(RowSum(result[p]), req.n_charge[1])
       THEN /\ pc' = "returned"
            /\ ret' = [shape |-> nd_shape(req.vg_shape, n_dot_of(req.model.sys)),
                       rows |-> result]
            /\ error' = error
       ELSE /\ pc' = "raised"
            /\ error' = "AssertionError"
            /\ ret' = ret
    /\ UNCHANGED <<req, backend, result>>

NoCall == [fn |-> None]

DispatchInit ==
    /\ pc = "start"
    /\ \E m \in DotArrays, sh \in Shapes, mode \in {"open", "closed"} :
          \E n \in ChargesOf(mode, m), vg \in VgOf(m, mode, sh) :
             req = [mode |-> mode, model |-> m, vg_shape |-> sh, vg |-> vg, n_charge |-> n]
    /\ backend = None
    /\ result = NoArray
    /\ events = <<>>
    /\ ret = NoRet
    /\ error = None
    /\ call = NoCall

DispatchNext ==
    \/ validate_vg /\ UNCHANGED call
    \/ ground_state_open_match /\ UNCHANGED call
    \/ ground_state_closed_match /\ UNCHANGED call
    \/ backend_returns /\ UNCHANGED call
    \/ brute_force_closed_returns /\ UNCHANGED call
    \/ ground_state_open_check /\ UNCHANGED call
    \/ ground_state_closed_check /\ UNCHANGED call

Spec == DispatchInit /\ [][DispatchNext]_vars

-----------------------------------------------------------------------------
(* Properties of the dispatcher *)

closed_T0 == req.mode = "closed" /\ req.model.T = 0
checked == pc \in {"returned", "raised"} /\ Len(events) > 0 /\ Last(events) = "assert"

\* the sum of a row differs from n_charge (a NaN differs from every number)
SumDiffers(row, n) ==
    \/ \E k \in DOMAIN row : IsNaN(row[k])
    \/ SumSeq([k \in DOMAIN row |-> row[k][2]]) # n * Den

\* the rows of {0..n_charge}^n_dot, as rows of floats
BruteRows(n_dot, n) == {[k \in 1..n_dot |-> Fin(c[k] * Den)] : c \in [1..n_dot -> 0..n]}

SumWithinTolerance(row, n) ==
    /\ \A k \in DOMAIN row : ~IsNaN(row[k])
    /\ LET diff == Abs(SumSeq([k \in DOMAIN row |-> row[k][2]]) - n * Den)
       IN diff = 0 \/ (diff <= 20 /\ diff * 100000000 <= Den + 1000 * Den * n)

IntegerValued(row) == \A k \in DOMAIN row : ~IsNaN(row[k]) /\ row[k][2] % Den = 0

C2_OpenNonNegative ==
    req.mode = "open" =>
       /\ pc = "returned" =>
             \A p \in DOMAIN ret.rows : \A k \in DOMAIN ret.rows[p] : ret.rows[p][k][2] >= 0
       /\ (checked /\ \E p \in DOMAIN result : \E k \in DOMAIN result[p] : result[p][k][2] < 0) =>
             pc = "raised" /\ error = "AssertionError" /\ ret = NoRet

\* the free energy of claim C3, scaled by Den^2: (n - Cgd.vg)^T Cdd_inv (n - Cgd.vg)
FreeEnergy(n, vg, sys) ==
    LET v == MatVec(sys.cgd, vg) IN Quad([k \in DOMAIN n |-> n[k] * Den - v[k]], sys.cdd_inv)

\* C3: at T = 0 the brute-force closed solver returns for every vg a vector
\* of {0..n_charge}^n_dot with sum n_charge whose free energy is least among
\* the vectors of that set with sum n_charge
C3_BruteForceMinimizes ==
    (closed_T0 /\ backend = "brute_force" /\ pc = "solved") =>
       \A p \in DOMAIN result :
          LET n_dot == n_dot_of(req.model.sys)
              star == [k \in 1..n_dot |-> result[p][k][2] \div Den]
          IN /\ result[p] \in BruteRows(n_dot, req.n_charge[1])
             /\ SumSeq(star) = req.n_charge[1]
             /\ \A n \in [1..n_dot -> 0..req.n_charge[1]] :
                   SumSeq(n) = req.n_charge[1] =>
                      FreeEnergy(star, req.vg[p], req.model.sys)
                         <= FreeEnergy(n, req.vg[p], req.model.sys)

\* C5: every recognized identifier, in any case, selects the backend of its
\* lower-case spelling and does not raise the unknown-backend error
C5_CaseInsensitive ==
    Lower(req.model.core) \in Recognized =>
       /\ error # "ValueError: incorrect core"
       /\ backend # None => backend = match_core(Lower(req.model.core))
       /\ pc \in {"called", "solved", "returned"} => backend # None

shape_matches == Last(req.vg_shape) = n_gate_of(req.model.sys)

\* C6: in both functions a vg whose trailing axis differs from n_gate raises
\* the shape error before the match statement, a configuration check or a
\* backend is reached, whatever the backend identifier; a vg whose trailing
\* axis equals n_gate raises no shape error
C6_EagerShapeValidation ==
    /\ (~shape_matches /\ pc # "start") =>
          /\ pc = "raised" /\ error = "ValueError: shape of vg"
          /\ events = <<"validate_vg">>
          /\ backend = None /\ result = NoArray /\ ret = NoRet
    /\ shape_matches => error # "ValueError: shape of vg"
    /\ (shape_matches /\ events = <<"validate_vg">>) => pc = "validated"
    /\ events # <<>> => events[1] = "validate_vg"

\* the shape error was raised for an identifier that is not recognized
C6_Witness ==
    /\ pc = "raised" /\ error = "ValueError: shape of vg"
    /\ match_core(req.model.core) = None /\ Len(req.vg_shape) = 2

-----------------------------------------------------------------------------
(* The closed configuration generator *)

\* np.floor, np.ceil and np.rint (halves to the even integer) of x / Den
Floor(x) == x \div Den
Ceil(x) == -((-x) \div Den)
Rint(x) ==
    LET f == Floor(x)
        r == x - f * Den
    IN IF 2 * r < Den THEN f
       ELSE IF 2 * r > Den THEN f + 1
       ELSE IF f % 2 = 0 THEN f ELSE f + 1

\* list(itertools.product([a, b], repeat=n)) as rows of 0 (a) and 1 (b): the
\* last position changes fastest
product2(n) ==
    [r \in 1..Pow(2, n) |-> [m \in 1..n |-> ((r - 1) \div Pow(2, n - m)) % 2]]

\* what a function of the model returns: rows, or an exception
Returned(rows) == [raised |-> None, rows |-> rows]
Raised(e) == [raised |-> e, rows |-> <<>>]

\* a slip: the upper test excludes the all-ceil total
closed_charge_configurations_le(n_continous, n_charge) ==
    LET floor_values == [i \in DOMAIN n_continous |-> Floor(n_continous[i])]
        n_dot == Len(n_continous)
        combinations == SelectSeq(product2(n_dot),
                            LAMBDA c : SumSeq(c) = n_charge - SumSeq(floor_values))
    IN IF SumSeq(floor_values) > n_charge THEN Returned(<<>>)
       ELSE IF SumSeq(floor_values) + n_dot <= n_charge THEN Returned(<<>>)
       ELSE IF combinations = <<>> THEN Raised("ValueError: need at least one array to stack")
       ELSE Returned([r \in DOMAIN combinations |->
                        [i \in 1..n_dot |-> combinations[r][i] + floor_values[i]]])

\* closed_charge_configurations; an empty result is np.empty((0, n_dot))
closed_charge_configurations(n_continous, n_charge) ==
    LET floor_values == [i \in DOMAIN n_continous |-> Floor(n_continous[i])]
        n_dot == Len(n_continous)
        combinations == SelectSeq(product2(n_dot),
                            LAMBDA c : SumSeq(c) = n_charge - SumSeq(floor_values))
    IN IF SumSeq(floor_values) > n_charge THEN Returned(<<>>)
       ELSE IF SumSeq(floor_values) + n_dot < n_charge THEN Returned(<<>>)
       ELSE IF combinations = <<>> THEN Raised("ValueError: need at least one array to stack")
       ELSE Returned([r \in DOMAIN combinations |->
                        [i \in 1..n_dot |-> combinations[r][i] + floor_values[i]]])

\* the continuous occupations the generator is applied to, in units of
\* 1/Den: the halves from -1 to 2
GenVals == {k * (Den \div 2) : k \in -2..4}

GeneratorInit ==
    /\ pc = "generator" /\ req = None /\ backend = None /\ result = NoArray
    /\ events = <<>> /\ ret = NoRet /\ error = None
    /\ \E n_dot \in 1..MaxDot :
          call \in [fn : {"closed_charge_configurations"},
                    n_continous : [1..n_dot -> GenVals],
                    n_charge : -1..(MaxCharge + 2),
                    done : {FALSE}, out : {Returned(<<>>)}]

apply_closed_charge_configurations ==
    /\ call.fn = "closed_charge_configurations"
    /\ ~call.done
    /\ call' = [call EXCEPT !.done = TRUE,
                   !.out = closed_charge_configurations(call.n_continous, call.n_charge)]
    /\ UNCHANGED dvars

SpecGenerator == GeneratorInit /\ [][apply_closed_charge_configurations]_vars

\* f is the floor of x / Den
IsFloorOf(f, x) == f * Den <= x /\ x < (f + 1) * Den

\* the floor of every component, as the integer f with f <= x / Den < f + 1
C4_Floors(n_continous) ==
    [i \in DOMAIN n_continous |-> CHOOSE f \in -2..4 : IsFloorOf(f, n_continous[i])]

\* the set C4 names: every dot at its floor or its floor + 1, the sum n_charge
C4_Set(n_continous, n_charge) ==
    LET fl == C4_Floors(n_continous)
        all == {[i \in DOMAIN fl |-> fl[i] + b[i]] : b \in [DOMAIN fl -> {0, 1}]}
    IN {n \in all : SumSeq(n) = n_charge}

C4_SumFloor(n_continous) == SumSeq(C4_Floors(n_continous))

\* C4: closed_charge_configurations returns exactly the vectors with every
\* dot at floor or floor + 1 and the sum n_charge, each once, raises nothing,
\* and the result is empty exactly when n_charge is outside
\* [sum(floor), sum(floor) + n_dot]
C4_GeneratorExact ==
    (call.fn = "closed_charge_configurations" /\ call.done) =>
       LET rows == call.out.rows
           n_dot == Len(call.n_continous)
           sf == C4_SumFloor(call.n_continous)
       IN /\ call.out.raised = None
          /\ {rows[r] : r \in DOMAIN rows} = C4_Set(call.n_continous, call.n_charge)
          /\ \A r1, r2 \in DOMAIN rows : rows[r1] = rows[r2] => r1 = r2
          /\ \A r \in DOMAIN rows : Len(rows[r]) = n_dot
          /\ (call.n_charge < sf \/ call.n_charge > sf + n_dot) <=> rows = <<>>

\* the generator returned the all-ceil vector of an occupation with a
\* negative fractional component
C4_Witness ==
    /\ call.fn = "closed_charge_configurations" /\ call.done
    /\ Len(call.out.rows) = 1
    /\ Len(call.n_continous) >= 2
    /\ \E i \in DOMAIN call.n_continous : call.n_continous[i] = -(Den \div 2)
    /\ call.n_charge = C4_SumFloor(call.n_continous) + Len(call.n_continous)

-----------------------------------------------------------------------------
(* The integer corrector: compute_argmin_open and compute_argmin_closed.   *)
(* n_continuous and threshold are in units of 1/Den, the candidates are    *)
(* rows of floats holding integers, the scores are scaled by Den^2.        *)

\* n_continuous - np.floor(n_continuous)
remainder(x) == x - Floor(x) * Den

\* the elements of a set of integers in ascending order
RECURSIVE Ascending(_)
Ascending(S) ==
    IF S = {} THEN <<>>
    ELSE LET m == CHOOSE x \in S : \A y \in S : x <= y
         IN <<m>> \o Ascending(S \ {m})

\* a slip: the comparison with threshold / 2 is not strict
open_floor_ceil_args_le(n_continuous, threshold) ==
    Ascending({j \in DOMAIN n_continuous :
                  Abs(2 * remainder(n_continuous[j]) - Den) <= threshold})

\* a slip: the comparison with threshold / 2 is reversed
open_floor_ceil_args_gt(n_continuous, threshold) ==
    Ascending({j \in DOMAIN n_continuous :
                  Abs(2 * remainder(n_continuous[j]) - Den) > threshold})

\* np.argwhere(np.abs(n_remainder - 0.5) < threshold / 2.)
open_floor_ceil_args(n_continuous, threshold) ==
    Ascending({j \in DOMAIN n_continuous :
                  Abs(2 * remainder(n_continuous[j]) - Den) < threshold})

\* args[np.logical_not(np.isin(args, floor_ceil_args))]
round_args_of(n_continuous, floor_ceil_args) ==
    Ascending({j \in DOMAIN n_continuous :
                  ~\E m \in DOMAIN floor_ceil_args : floor_ceil_args[m] = j})

\* n_list after the two loops: it starts as NaN, row i gets the i-th
\* combination of floor and ceil at the dots of floor_ceil_args and np.rint
\* at the dots of round_args
populate_n_list(n_continuous, floor_ceil_args, round_args) ==
    LET k == Len(floor_ceil_args)
        ops == product2(k)
        entry(i, j) ==
            IF \E m \in DOMAIN round_args : round_args[m] = j
            THEN Fin(Rint(n_continuous[j]))
            ELSE IF \E m \in 1..k : floor_ceil_args[m] = j
            THEN LET m == CHOOSE m \in 1..k : floor_ceil_args[m] = j
                 IN Fin(IF ops[i][m] = 0 THEN Floor(n_continuous[j])
                        ELSE Ceil(n_continuous[j]))
            ELSE NaN
    IN [i \in 1..Pow(2, k) |-> [j \in DOMAIN n_continuous |-> entry(i, j)]]

\* np.einsum('...i, ij, ...j', n_list - n_continuous, cdd_inv, n_list - n_continuous)
score(n_list, n_continuous, cdd_inv) ==
    [i \in DOMAIN n_list |->
        IF \E j \in DOMAIN n_list[i] : IsNaN(n_list[i][j]) THEN NaN
        ELSE Fin(Quad([j \in DOMAIN n_continuous |->
                          n_list[i][j][2] * Den - n_continuous[j]], cdd_inv))]

\* what a call of the corrector leaves: the candidate list and the value
Picked(n_list, F) ==
    IF n_list = <<>>
    THEN [n_list |-> n_list, raised |-> "ValueError: argmin of an empty sequence",
          value |-> <<>>]
    ELSE [n_list |-> n_list, raised |-> None, value |-> n_list[argmin(F)]]

compute_argmin_open(n_continuous, threshold, cdd_inv) ==
    LET floor_ceil_args == open_floor_ceil_args(n_continuous, threshold)
        round_args == round_args_of(n_continuous, floor_ceil_args)
        n_list == populate_n_list(n_continuous, floor_ceil_args, round_args)
    IN Picked(n_list, score(n_list, n_continuous, cdd_inv))

\* np.sort
RECURSIVE np_sort(_)
np_sort(s) ==
    IF s = <<>> THEN <<>>
    ELSE LET m == CHOOSE i \in DOMAIN s : \A j \in DOMAIN s : s[i] <= s[j]
         IN <<s[m]>> \o np_sort(SubSeq(s, 1, m - 1) \o SubSeq(s, m + 1, Len(s)))

\* np.searchsorted(a, x, side='right') of a sorted a
searchsorted_right(a, x) == Cardinality({i \in DOMAIN a : a[i] <= x})

Max(a, b) == IF a >= b THEN a ELSE b
Min(a, b) == IF a <= b THEN a ELSE b

\* the dots compute_argmin_closed branches over when n_charge is None:
\* args = np.arange(n) replaces the argsort, so args[args < threshold_index]
closed_floor_ceil_args(n_continuous, threshold, cdd_inv) ==
    LET delta2 == [j \in DOMAIN n_continuous |->
                      Abs(2 * remainder(n_continuous[j]) - Den)]
        sorted_delta2 == np_sort(delta2)
        threshold_index == Max(searchsorted_right(sorted_delta2, threshold),
                               Min(Len(cdd_inv), 3))
    IN Ascending({j \in DOMAIN n_continuous : j - 1 < threshold_index})

\* the generator of the closed path, whose code is not among the sources:
\* every dot at its lower limit or one above, the sum n_charge, in the
\* order of the product
compute_charge_configuration_brute_force(n_charge, n_dot, lower_limits) ==
    LET combinations == SelectSeq(product2(n_dot),
                            LAMBDA c : SumSeq(c) = n_charge - SumSeq(lower_limits))
    IN [r \in DOMAIN combinations |->
           [i \in 1..n_dot |-> Fin(combinations[r][i] + lower_limits[i])]]

compute_argmin_closed(n_continuous, threshold, cdd_inv, n_charge) ==
    LET n_list ==
           IF n_charge = NoInt
           THEN LET floor_ceil_args ==
                       closed_floor_ceil_args(n_continuous, threshold, cdd_inv)
                IN populate_n_list(n_continuous, floor_ceil_args,
                                   round_args_of(n_continuous, floor_ceil_args))
           ELSE compute_charge_configuration_brute_force(
                    n_charge[1], Len(cdd_inv),
                    [j \in DOMAIN n_continuous |-> Floor(n_continuous[j])])
    IN Picked(n_list, score(n_list, n_continuous, cdd_inv))

\* the continuous occupations the corrector is applied to, in units of
\* 1/Den: 0, 1/Den, 1/2, 1 - 1/Den and 3/2
CorrVals == {0, 1, Den \div 2, Den - 1, Den + Den \div 2}
\* the thresholds: the multiples of 1/Den in [0, 1]
Thresholds == 0..Den
\* Cdd_inv for n dots: uncoupled, and coupled
CddInvs(n) ==
    {[i \in 1..n |-> [j \in 1..n |-> IF i = j THEN 1 ELSE 0]],
     [i \in 1..n |-> [j \in 1..n |-> IF i = j THEN 2 ELSE 1]]}

CorrectorInit ==
    /\ pc = "corrector" /\ req = None /\ backend = None /\ result = NoArray
    /\ events = <<>> /\ ret = NoRet /\ error = None
    /\ \E n_dot \in 1..MaxDot :
          \/ call \in [fn : {"compute_argmin_open"},
                       n_continuous : [1..n_dot -> CorrVals],
                       cdd_inv : CddInvs(n_dot),
                       n_charge : {NoInt}, outs : {{}}]
          \/ call \in [fn : {"compute_argmin_closed"},
                       n_continuous : [1..n_dot -> CorrVals],
                       cdd_inv : CddInvs(n_dot),
                       n_charge : {NoInt} \cup {Some(c) : c \in 0..MaxCharge},
                       outs : {{}}]

\* compute_argmin_open is applied to the drawn occupation with one more
\* threshold, at most twice
apply_compute_argmin_open ==
    /\ call.fn = "compute_argmin_open"
    /\ Cardinality(call.outs) < 2
    /\ \E t \in Thresholds :
          /\ \A o \in call.outs : o.threshold # t
          /\ call' = [call EXCEPT !.outs = @ \cup
                         {[threshold |-> t,
                           out |-> compute_argmin_open(call.n_continuous, t, call.cdd_inv)]}]
    /\ UNCHANGED dvars

\* compute_argmin_closed is applied once; with n_charge given it does not
\* read the threshold, which is then drawn as 1
apply_compute_argmin_closed ==
    /\ call.fn = "compute_argmin_closed"
    /\ call.outs = {}
    /\ \E t \in IF call.n_charge = NoInt THEN Thresholds ELSE {Den} :
          call' = [call EXCEPT !.outs =
                      {[threshold |-> t,
                        out |-> compute_argmin_closed(call.n_continuous, t,
                                                      call.cdd_inv, call.n_charge)]}]
    /\ UNCHANGED dvars

CorrectorNext ==
    \/ apply_compute_argmin_open
    \/ apply_compute_argmin_closed

SpecCorrector == CorrectorInit /\ [][CorrectorNext]_vars

-----------------------------------------------------------------------------
(* Properties of the corrector *)

is_open_call == call.fn = "compute_argmin_open"
is_closed_call == call.fn = "compute_argmin_closed"

\* the free energy of a candidate about the continuous occupation of the
\* call, scaled by Den^2
CandidateEnergy(row) ==
    Quad([j \in DOMAIN row |-> row[j][2] * Den - call.n_continuous[j]], call.cdd_inv)

NoNaNIn(n_list) == \A i \in DOMAIN n_list : \A j \in DOMAIN n_list[i] : ~IsNaN(n_list[i][j])

\* m is the ceiling of x / Den
IsCeilOf(m, x) == (m - 1) * Den < x /\ x <= m * Den

\* the rows of L are the product of floor and ceil over the dots of B in
\* dot order, floor before ceil and the last dot of B fastest; the other
\* dots are the same in every row
InProductOrder(L, B) ==
    LET k == Cardinality(B)
        rank(j) == Cardinality({b \in B : b <= j})
        bit(i, j) == ((i - 1) \div Pow(2, k - rank(j))) % 2
    IN /\ Len(L) = Pow(2, k)
       /\ \A i \in DOMAIN L : \A j \in DOMAIN L[i] :
             IF j \in B
             THEN IF bit(i, j) = 0
                  THEN IsFloorOf(L[i][j][2], call.n_continuous[j])
                  ELSE IsCeilOf(L[i][j][2], call.n_continuous[j])
             ELSE L[i][j] = L[1][j]

\* C7: at T = 0 the corrector returns the first candidate, in generation
\* order, among those of least score; the floor/ceil enumeration generates
\* the candidates in the order of the product over the branched dots in dot
\* order, floor before ceil and the last branched dot fastest, the all-floor
\* candidate first
C7_FirstOccurrence ==
    (is_open_call \/ is_closed_call) =>
       \A o \in call.outs :
          LET L == o.out.n_list
              E == [i \in DOMAIN L |-> CandidateEnergy(L[i])]
          IN
          /\ L # <<>> =>
                /\ o.out.raised = None
                /\ NoNaNIn(L)
                /\ \E i \in DOMAIN L :
                      /\ o.out.value = L[i]
                      /\ \A j \in DOMAIN L : E[i] <= E[j]
                      /\ \A j \in 1..(i - 1) : E[i] < E[j]
          /\ call.n_charge = NoInt =>
                \E B \in SUBSET DOMAIN call.n_continuous :
                   /\ InProductOrder(L, B)
                   /\ \A j \in B : IsFloorOf(L[1][j][2], call.n_continuous[j])

\* compute_argmin_open returned the first of several candidates of least
\* score, the all-floor one, and a later candidate has the same score
C7_Witness ==
    /\ is_open_call
    /\ Len(call.n_continuous) = 3
    /\ \E o \in call.outs :
          LET L == o.out.n_list IN
          /\ Len(L) >= 4
          /\ o.out.value = L[1]
          /\ \E j \in 2..Len(L) :
                L[j] # L[1] /\ CandidateEnergy(L[j]) = CandidateEnergy(L[1])

RowSet(n_list) == {n_list[i] : i \in DOMAIN n_list}

\* C8: for thresholds t1 <= t2 the candidates compute_argmin_open enumerates
\* for t1 are among those it enumerates for t2, and the vector returned for
\* t2 has a free energy no greater than that of the vector returned for t1
C8_ThresholdMonotone ==
    is_open_call =>
       \A o1, o2 \in call.outs :
          o1.threshold <= o2.threshold =>
             /\ RowSet(o1.out.n_list) \subseteq RowSet(o2.out.n_list)
             /\ CandidateEnergy(o2.out.value) <= CandidateEnergy(o1.out.value)

\* the larger threshold added candidates and gave a strictly lower energy
C8_Witness ==
    /\ is_open_call
    /\ \E o1, o2 \in call.outs :
          /\ o1.threshold < o2.threshold
          /\ Len(o1.out.n_list) < Len(o2.out.n_list)
          /\ CandidateEnergy(o2.out.value) < CandidateEnergy(o1.out.value)

\* the dots C9 branches: |remainder - 0.5| < threshold / 2, with the
\* remainder x - floor(x)
C9_Branched(t) ==
    {j \in DOMAIN call.n_continuous :
        \E f \in 0..2 :
           /\ IsFloorOf(f, call.n_continuous[j])
           /\ Abs(2 * (call.n_continuous[j] - f * Den) - Den) < t}

\* m is the floor or the ceiling of x / Den
IsFloorOrCeilOf(m, x) == (m - 1) * Den < x /\ x < (m + 1) * Den
\* m is an integer nearest to x / Den
IsNearestTo(m, x) == 2 * Abs(m * Den - x) <= Den

\* the vectors with floor or ceil at the dots of B, in every combination,
\* and the entry of the row base at every other dot
C9_Set(B, base) ==
    {n \in [DOMAIN call.n_continuous -> 0..2] :
        \A j \in DOMAIN n :
           IF j \in B
           THEN IsFloorOrCeilOf(n[j], call.n_continuous[j])
           ELSE n[j] = base[j][2]}

\* C9: the candidate list of compute_argmin_open is exactly the 2^k vectors
\* with floor or ceil at the k dots with |remainder - 0.5| < threshold / 2,
\* in every combination, and the nearest integer at every other dot; no
\* entry is left undefined, also when k = 0
C9_OpenCandidates ==
    is_open_call =>
       \A o \in call.outs :
          LET L == o.out.n_list
              B == C9_Branched(o.threshold)
          IN /\ NoNaNIn(L)
             /\ Len(L) = Pow(2, Cardinality(B))
             /\ \A i1, i2 \in DOMAIN L : L[i1] = L[i2] => i1 = i2
             /\ \A j \in DOMAIN call.n_continuous \ B :
                   IsNearestTo(L[1][j][2], call.n_continuous[j])
             /\ {[j \in DOMAIN L[i] |-> L[i][j][2]] : i \in DOMAIN L} = C9_Set(B, L[1])

\* one call branched two dots of three, another branched none
C9_Witness ==
    /\ is_open_call
    /\ Len(call.n_continuous) = 3
    /\ \E o1, o2 \in call.outs : Len(o1.out.n_list) = 1 /\ Len(o2.out.n_list) = 4

-----------------------------------------------------------------------------
(* The python core: ground_state_open_python sets the quadratic program up *)
(* once and maps _ground_state_open_0d over the voltage vectors.           *)
(* Occupations, voltages, q, l and u are in units of 1/Den.                *)

\* the upper bound of the open program, np.full(dim, fill_value=100)
osqp_upper == 100

eye(dim) == [i \in 1..dim |-> [j \in 1..dim |-> IF i = j THEN 1 ELSE 0]]

NoProb == <<>>

\* a slip: the sign of the linear term
linear_term_positive(cdd_inv, cgd, vg) ==
    MatVec(cdd_inv, MatVec(cgd, vg))

\* -cdd_inv @ cgd @ vg
linear_term(cdd_inv, cgd, vg) ==
    LET v == MatVec(cgd, vg)
    IN [i \in DOMAIN cdd_inv |-> -MatVec(cdd_inv, v)[i]]

\* init_osqp_problem: the program min 1/2 x'Px + q'x with l <= Ax <= u
init_osqp_problem(cdd_inv, cgd, n_charge) ==
    LET dim == Len(cdd_inv)
        zeros == [g \in DOMAIN cgd[1] |-> 0]
    IN IF n_charge # NoInt
       THEN [P |-> cdd_inv, q |-> linear_term(cdd_inv, cgd, zeros),
             l |-> <<n_charge[1] * Den>> \o [i \in 1..dim |-> 0],
             u |-> [i \in 1..(dim + 1) |-> n_charge[1] * Den],
             A |-> <<[j \in 1..dim |-> 1]>> \o eye(dim)]
       ELSE [P |-> cdd_inv, q |-> linear_term(cdd_inv, cgd, zeros),
             l |-> [i \in 1..dim |-> 0],
             u |-> [i \in 1..dim |-> osqp_upper * Den],
             A |-> eye(dim)]

\* prob.update(q=...)
prob_update(prob, q) == [prob EXCEPT !.q = q]

\* the values of a component the solution is looked for at: up to three
\* above the lower bound, and the upper bound
SolveGrid(prob, i) == (prob.l[i]..(prob.l[i] + 3 * Den)) \cup {prob.u[i]}

\* x is the minimum of the program with A the identity: every component is
\* at a bound with the gradient Px + q pointing out of the box, or inside
\* with the gradient zero
IsMinimum(prob, x) ==
    \A i \in DOMAIN x :
       LET g == Dot(prob.P[i], x) + prob.q[i]
       IN /\ prob.l[i] <= x[i] /\ x[i] <= prob.u[i]
          /\ x[i] > prob.l[i] => g <= 0
          /\ x[i] < prob.u[i] => g >= 0

\* prob.solve().x for the open program: the minimum, which is unique as P
\* is positive definite
prob_solve(prob) ==
    CHOOSE x \in [DOMAIN prob.q -> UNION {SolveGrid(prob, i) : i \in DOMAIN prob.q}] :
        /\ \A i \in DOMAIN x : x[i] \in SolveGrid(prob, i)
        /\ IsMinimum(prob, x)

\* np.clip(x, 0, None)
clip_lower(x) == [i \in DOMAIN x |-> IF x[i] < 0 THEN 0 ELSE x[i]]

\* the systems of the python core: two coupled dots, and one dot
SysC == [cdd_inv |-> <<<<1>>>>, cgd |-> <<<<2>>>>]
PySystems == {SysA, SysC}

\* the gate voltages: -1, -1/Den, 0, 1/Den, 1/2 and 51, the last beyond
\* the upper bound of the program
PyVgVals == {-Den, -1, 0, 1, Den \div 2, (osqp_upper \div 2 + 1) * Den}

\* the total charges of the closed batches
PyCharges == {0, 2}

\* x is the minimum of the closed program, A the row of ones over the
\* identity: the sum is l[1] = u[1], every dot is within its bounds, and one
\* multiplier nu of the sum makes the gradient Px + q + nu point out of
\* the box at a bound and vanish inside: -g[a] <= -g[b] for every dot a
\* below its upper bound and every dot b above its lower bound
IsMinimumClosed(prob, x) ==
    LET g == [i \in DOMAIN x |-> Dot(prob.P[i], x) + prob.q[i]]
    IN /\ prob.l[1] <= SumSeq(x) /\ SumSeq(x) <= prob.u[1]
       /\ \A i \in DOMAIN x : prob.l[i + 1] <= x[i] /\ x[i] <= prob.u[i + 1]
       /\ \A a, b \in DOMAIN x :
             (x[a] < prob.u[a + 1] /\ x[b] > prob.l[b + 1]) => g[b] <= g[a]

\* prob.solve().x for the closed program
prob_solve_closed(prob) ==
    CHOOSE x \in [DOMAIN prob.q -> 0..prob.u[1]] : IsMinimumClosed(prob, x)

\* np.clip(x, 0, n_charge)
clip_both(x, n_charge) ==
    [i \in DOMAIN x |-> IF x[i] < 0 THEN 0
                        ELSE IF x[i] > n_charge * Den THEN n_charge * Den ELSE x[i]]

PythonInit ==
    /\ pc = "python" /\ req = None /\ backend = None /\ result = NoArray
    /\ events = <<>> /\ ret = NoRet /\ error = None
    /\ \E sys \in PySystems, len \in 1..2 :
          \E vg \in [1..len -> [1..n_gate_of(sys) -> PyVgVals]] :
             \/ \E threshold \in Thresholds :
                   call = [fn |-> "ground_state_open_python", vg |-> vg,
                           cgd |-> sys.cgd, cdd_inv |-> sys.cdd_inv,
                           threshold |-> threshold, n_charge |-> NoInt,
                           prob |-> NoProb, setups |-> 0, updates |-> 0, solves |-> 0,
                           N |-> <<>>, trace |-> <<>>]
             \/ \E n_charge \in PyCharges :
                   call = [fn |-> "ground_state_closed_python", vg |-> vg,
                           cgd |-> sys.cgd, cdd_inv |-> sys.cdd_inv,
                           threshold |-> Den, n_charge |-> Some(n_charge),
                           prob |-> NoProb, setups |-> 0, updates |-> 0, solves |-> 0,
                           N |-> <<>>, trace |-> <<>>]

\* prob = init_osqp_problem(cdd_inv=cdd_inv, cgd=cgd)
ground_state_open_python_setup ==
    /\ pc = "python"
    /\ call.fn = "ground_state_open_python"
    /\ call' = [call EXCEPT !.prob = init_osqp_problem(call.cdd_inv, call.cgd, NoInt),
                            !.setups = @ + 1]
    /\ pc' = "python_map"
    /\ UNCHANGED <<req, backend, result, events, ret, error>>

\* _ground_state_open_0d for the next voltage vector of the map; the trace
\* keeps the program in force at the solve
ground_state_open_0d ==
    /\ pc = "python_map"
    /\ call.fn = "ground_state_open_python"
    /\ Len(call.N) < Len(call.vg)
    /\ LET vg == call.vg[Len(call.N) + 1]
           prob == prob_update(call.prob, linear_term(call.cdd_inv, call.cgd, vg))
       IN \E x \in {prob_solve(prob)} :
          \E n_continuous \in {clip_lower(x)} :
          \E out \in {compute_argmin_open(n_continuous, call.threshold, call.cdd_inv)} :
             call' = [call EXCEPT !.prob = prob,
                                  !.updates = @ + 1,
                                  !.solves = @ + 1,
                                  !.N = Append(@, out.value),
                                  !.trace = Append(@, [x |-> x, n_continuous |-> n_continuous,
                                                       n_list |-> out.n_list,
                                                       prob |-> prob,
                                                       value |-> out.value])]
    /\ UNCHANGED dvars

\* return VectorList(list(N))
ground_state_open_python_returns ==
    /\ pc = "python_map"
    /\ call.fn = "ground_state_open_python"
    /\ Len(call.N) = Len(call.vg)
    /\ pc' = "python_done"
    /\ ret' = [shape |-> <<Len(call.N), Len(call.cdd_inv)>>, rows |-> call.N]
    /\ UNCHANGED <<req, backend, result, events, error, call>>

\* prob = init_osqp_problem(cdd_inv=cdd_inv, cgd=cgd, n_charge=n_charge)
ground_state_closed_python_setup ==
    /\ pc = "python"
    /\ call.fn = "ground_state_closed_python"
    /\ call' = [call EXCEPT !.prob = init_osqp_problem(call.cdd_inv, call.cgd, call.n_charge),
                            !.setups = @ + 1]
    /\ pc' = "python_map"
    /\ UNCHANGED <<req, backend, result, events, ret, error>>

\* _ground_state_closed_0d for the next voltage vector of the map; an
\* exception of compute_argmin_closed ends the call
ground_state_closed_0d ==
    /\ pc = "python_map"
    /\ call.fn = "ground_state_closed_python"
    /\ Len(call.N) < Len(call.vg)
    /\ LET vg == call.vg[Len(call.N) + 1]
           prob == prob_update(call.prob, linear_term(call.cdd_inv, call.cgd, vg))
       IN \E x \in {prob_solve_closed(prob)} :
          \E n_continuous \in {clip_both(x, call.n_charge[1])} :
          \E out \in {compute_argmin_closed(n_continuous, call.threshold, call.cdd_inv,
                                            call.n_charge)} :
             /\ call' = [call EXCEPT !.prob = prob,
                                     !.updates = @ + 1,
                                     !.solves = @ + 1,
                                     !.N = Append(@, out.value),
                                     !.trace = Append(@, [x |-> x,
                                                          n_continuous |-> n_continuous,
                                                          n_list |-> out.n_list,
                                                          prob |-> prob,
                                                          value |-> out.value])]
             /\ IF out.raised = None
                THEN UNCHANGED <<pc, error>>
                ELSE pc' = "python_done" /\ error' = out.raised
    /\ UNCHANGED <<req, backend, result, events, ret>>

\* return VectorList(list(N))
ground_state_closed_python_returns ==
    /\ pc = "python_map"
    /\ call.fn = "ground_state_closed_python"
    /\ Len(call.N) = Len(call.vg)
    /\ pc' = "python_done"
    /\ ret' = [shape |-> <<Len(call.N), Len(call.cdd_inv)>>, rows |-> call.N]
    /\ UNCHANGED <<req, backend, result, events, error, call>>

PythonNext ==
    \/ ground_state_open_python_setup
    \/ ground_state_open_0d
    \/ ground_state_open_python_returns
    \/ ground_state_closed_python_setup
    \/ ground_state_closed_0d
    \/ ground_state_closed_python_returns

SpecPython == PythonInit /\ [][PythonNext]_vars

-----------------------------------------------------------------------------
(* Properties of the python core *)

is_python_call == call.fn = "ground_state_open_python"

\* v = Cgd vg of the m-th voltage vector
Target(m) == MatVec(call.cgd, call.vg[m])

\* F(n) = (n - v)' Cdd_inv (n - v) of a candidate for the m-th voltage
\* vector, scaled by Den^2
SpecFreeEnergy(row, m) ==
    Quad([j \in DOMAIN row |-> row[j][2] * Den - Target(m)[j]], call.cdd_inv)

\* the score the corrector gave the candidate, about the clipped solution
CodeScore(row, m) ==
    Quad([j \in DOMAIN row |-> row[j][2] * Den - call.trace[m].n_continuous[j]],
         call.cdd_inv)

-----------------------------------------------------------------------------
(* The floor/ceil branching path of compute_argmin_closed, with more dots  *)
(* than the three it always branches.                                      *)

MaxBranchDot == 4

\* compute_argmin_closed is called without n_charge
BranchInit ==
    /\ pc = "corrector" /\ req = None /\ backend = None /\ result = NoArray
    /\ events = <<>> /\ ret = NoRet /\ error = None
    /\ \E n_dot \in 1..MaxBranchDot :
          call \in [fn : {"compute_argmin_closed"},
                    n_continuous : [1..n_dot -> CorrVals],
                    cdd_inv : CddInvs(n_dot),
                    n_charge : {NoInt}, outs : {{}}]

SpecBranch == BranchInit /\ [][apply_compute_argmin_closed]_vars

\* 2 |remainder - 0.5| of dot j, in units of 1/Den, with the remainder
\* x - floor(x)
C11_Delta2(j) ==
    LET f == CHOOSE f \in 0..2 : IsFloorOf(f, call.n_continuous[j])
    IN Abs(2 * (call.n_continuous[j] - f * Den) - Den)

\* k = max(number of dots with delta within threshold / 2, min(n_dot, 3))
C11_BranchCount(t) ==
    LET n_dot == Len(call.n_continuous)
        within == Cardinality({j \in 1..n_dot : C11_Delta2(j) <= t})
        least == IF n_dot <= 3 THEN n_dot ELSE 3
    IN IF within >= least THEN within ELSE least

\* C11: without n_charge compute_argmin_closed branches, over floor and
\* ceil, k dots of smallest |remainder - 0.5|, k the larger of the number of
\* dots within threshold / 2 and min(n_dot, 3), and rounds every other dot
\* to the nearest integer
C11_BranchesLeastCertain ==
    (is_closed_call /\ call.n_charge = NoInt) =>
       \A o \in call.outs :
          LET L == o.out.n_list
              dots == DOMAIN call.n_continuous
          IN \E B \in SUBSET dots :
                /\ Cardinality(B) = C11_BranchCount(o.threshold)
                /\ \A b \in B : \A c \in dots \ B : C11_Delta2(b) <= C11_Delta2(c)
                /\ InProductOrder(L, B)
                /\ \A c \in dots \ B : IsNearestTo(L[1][c][2], call.n_continuous[c])

-----------------------------------------------------------------------------
(* The reuse of the quadratic program across a batch *)

is_batch_call ==
    call.fn \in {"ground_state_open_python", "ground_state_closed_python"}

\* x is within the constraints l <= Ax <= u of the program
Feasible(prob, x) ==
    \A r \in DOMAIN prob.A :
       prob.l[r] <= Dot(prob.A[r], x) /\ Dot(prob.A[r], x) <= prob.u[r]

\* the constraints C12 names: open, 0 <= n_i and nothing else; closed, the
\* sum is n_charge and 0 <= n_i <= n_charge
C12_Admissible(x) ==
    IF call.n_charge = NoInt
    THEN \A i \in DOMAIN x : 0 <= x[i]
    ELSE /\ SumSeq(x) = call.n_charge[1] * Den
         /\ \A i \in DOMAIN x : 0 <= x[i] /\ x[i] <= call.n_charge[1] * Den

\* the occupations the constraints are compared at, in units of 1/Den: one
\* below zero, zero, 1, 2, one above 2, and 1000
C12_Points == {-1, 0, Den, 2 * Den, 2 * Den + 1, 1000 * Den}

\* the solver is set up once, before the first solve
C12_SetupOnce ==
    /\ pc = "python" => (call.setups = 0 /\ call.prob = NoProb /\ call.solves = 0)
    /\ pc # "python" => (call.setups = 1 /\ call.prob # NoProb)

\* P is Cdd_inv and the constraints are those of the regime
C12_Constraints ==
    call.prob # NoProb =>
       /\ call.prob.P = call.cdd_inv
       /\ \A x \in [DOMAIN call.cdd_inv -> C12_Points] :
             Feasible(call.prob, x) <=> C12_Admissible(x)

\* the m-th solve is under the q of the m-th vector and the P, A, l and u
\* the program has now, one update and one solve a vector, and the m-th
\* output row is the one computed from the m-th solve
C12_UpdateThenSolve ==
    /\ call.updates = Len(call.trace) /\ call.solves = Len(call.trace)
    /\ Len(call.N) = Len(call.trace) /\ Len(call.trace) <= Len(call.vg)
    /\ (pc = "python_done" /\ error = None) => Len(call.N) = Len(call.vg)
    /\ \A m \in DOMAIN call.trace :
          LET at == call.trace[m].prob IN
          /\ at.q = [i \in DOMAIN call.cdd_inv |-> -Dot(call.cdd_inv[i], Target(m))]
          /\ at.P = call.prob.P /\ at.A = call.prob.A
          /\ at.l = call.prob.l /\ at.u = call.prob.u
          /\ IF call.n_charge = NoInt
             THEN IsMinimum(at, call.trace[m].x)
             ELSE IsMinimumClosed(at, call.trace[m].x)
          /\ call.N[m] = call.trace[m].value
          /\ \E i \in DOMAIN call.trace[m].n_list : call.N[m] = call.trace[m].n_list[i]

\* C12: in ground_state_open_python and ground_state_closed_python the
\* solver is set up once a batch, before the first solve, with P = Cdd_inv
\* and the constraints of the regime (open: 0 <= n_i and no other; closed:
\* the sum is n_charge and 0 <= n_i <= n_charge); every vector, in batch
\* order, causes one update of q to -Cdd_inv Cgd vg and then one solve; P,
\* A, l and u do not change after the setup, and the i-th output row comes
\* from the i-th solve
C12_QPReuse ==
    is_batch_call => (C12_SetupOnce /\ C12_Constraints /\ C12_UpdateThenSolve)

=============================================================================
